---- MODULE Spec2Model ----
(***************************************************************************)
(* Plan / execute / replan orchestration of src/agent.py: the LangGraph    *)
(* StateGraph supervisor -> human_input -> agent_executor -> replanner ->  *)
(* (agent_executor | END), its State, the interrupt/resume protocol of     *)
(* human_input and the routing predicate should_end.                       *)
(*                                                                         *)
(* The planning model (ChatOpenAI with structured output) and the three    *)
(* RemoteGraph deployments are external: every value their output schema   *)
(* admits is a possible result, and every call may raise.                  *)
(***************************************************************************)
EXTENDS Integers, Sequences, FiniteSets, TLC

VARIABLES
    state,        \* the graph's State: a function from the keys present to their values
    pc,           \* the node to run next, "interrupted", END or "aborted"
    interrupts,   \* the payloads emitted by interrupt(), in order
    resume,       \* the values delivered by Command(resume=...), in order
    oracle_call,  \* the structured-output call made by the node that ran last
    remote_call,  \* the RemoteGraph call made by the node that ran last
    invocations,  \* per RemoteGraph, the number of invoke calls sent to it
    event,        \* the last event of stream_mode="updates": the node and its update
    started,      \* per node, the number of times its function was entered
    completed,    \* per node, the number of times its function returned
    error,        \* the exception the run ended with, "none" while there is none
    memory_saver, \* the MemorySaver: per thread_id, the checkpoint it holds
    routed        \* the number of times should_end was called

vars == <<state, pc, interrupts, resume, oracle_call, remote_call, invocations,
          event, started, completed, error, memory_saver, routed>>

----------------------------------------------------------------------------
(* Bounds of the model *)

MaxPlanLen == 2     \* longest list of steps of a first or a revised plan
MaxReplanLen == 1   \* longest list of steps of a plan replanner gets back
RecursionLimit == 6 \* steps of the graph after which the run is cut off
MaxHistory == 2     \* longest message list a remote graph returns

SeqsUpTo(S, n) == UNION {[1..k -> S] : k \in 0..n}

Last(s) == s[Len(s)]

LastN(s, n) == IF Len(s) <= n THEN s ELSE SubSeq(s, Len(s) - n + 1, Len(s))

----------------------------------------------------------------------------
(* Data model *)

END == "__end__"

START == "__start__"

Nodes == {"supervisor", "human_input", "agent_executor", "replanner"}

Subagents ==
    {"customer_information_subagent",
     "music_catalog_information_subagent",
     "invoice_information_subagent"}

Descriptions == {"look it up"}

Step == [description : Descriptions, subagent : Subagents]

PlanUpTo(n) == [steps : SeqsUpTo(Step, n)]

Plan == PlanUpTo(MaxPlanLen)

Objectives == {"my customer ID is 1. what is my name?", "name and email on file"}

PlanWithUserInput ==
    [steps : SeqsUpTo(Step, MaxPlanLen), updated_objective : Objectives]

Response == [response : {"", "Your name is Luis."}]

ReplannerResponse == [action : Response \cup PlanUpTo(MaxReplanLen)]

\* isinstance(result.action, Response)
IsResponse(action) == "response" \in DOMAIN action

initial_input ==
    [messages |-> <<[type |-> "human",
                     content |-> "my customer ID is 1. what is my name?"]>>]

\* The values input() hands to Command(resume=...)
UserInputs == {"", "also check my email on file"}

\* What a remote graph returns under "messages"
RemoteContents == {"Luis"}

RemoteHistories == SeqsUpTo([role : {"ai"}, content : RemoteContents], MaxHistory)

RemoteGraphs ==
    {"customer_information_remote_graph",
     "music_catalog_information_remote_graph",
     "invoice_information_remote_graph"}

NoCall == [kind |-> "none"]

\* The model's output does not validate against the schema asked for
ParseError == [error |-> "OutputParserException"]

NoUpdate == <<>>

\* The thread_id values a run of the graph may be configured with
ThreadIds == {"1", "2"}

\* thread = {"configurable": {"thread_id": "1"}}
thread == [configurable |-> [thread_id |-> "1"]]

\* What the MemorySaver holds for a thread_id it has no checkpoint of
NoCheckpoint == [saved |-> FALSE]

----------------------------------------------------------------------------
(* State and its reducers *)

\* Reduce with every key overwritten, past_steps too
Reduce_overwrite(key, old, new) == new

\* Reduce with every sequence-valued key appended to, action_plan too
Reduce_append(key, old, new) ==
    IF key \in {"past_steps", "messages", "action_plan"} THEN old \o new ELSE new

\* past_steps is Annotated[..., operator.add], messages Annotated[..., add_messages]:
\* an update to them is appended; every other key is overwritten.
Reduce(key, old, new) ==
    IF key \in {"past_steps", "messages"} THEN old \o new ELSE new

ApplyUpdate(st, update) ==
    [k \in DOMAIN st \cup DOMAIN update |->
        IF k \notin DOMAIN update THEN st[k]
        ELSE IF k \in DOMAIN st THEN Reduce(k, st[k], update[k])
        ELSE update[k]]

\* Python's truth value of a str
Truthy(s) == Len(s) > 0

----------------------------------------------------------------------------
(* Helpers *)

RECURSIVE format_steps_from(_, _)
format_steps_from(steps_list, i) ==
    IF i > Len(steps_list) THEN ""
    ELSE "## Step " \o ToString(i) \o "\n\n"
         \o "### Task Description\n" \o steps_list[i][1] \o "\n\n"
         \o "### Result\n" \o steps_list[i][2] \o "\n\n"
         \o (IF i < Len(steps_list) THEN "---\n\n" ELSE "")
         \o format_steps_from(steps_list, i + 1)

format_steps(steps_list) ==
    "# STEPS ALREADY PERFORMED BY THE SUBAGENTS\n\n" \o format_steps_from(steps_list, 1)

RECURSIVE format_action_plan_from(_, _)
format_action_plan_from(steps_list, i) ==
    IF i > Len(steps_list) THEN ""
    ELSE "## Action " \o ToString(i) \o "\n\n"
         \o "### Agent\n" \o steps_list[i].subagent \o "\n\n"
         \o "### Task\n" \o steps_list[i].description \o "\n\n"
         \o (IF i < Len(steps_list) THEN "---\n\n" ELSE "")
         \o format_action_plan_from(steps_list, i + 1)

format_action_plan(steps_list) ==
    "# ACTION PLAN FROM PREVIOUS SUPERVISOR/PLANNER\n\n"
    \o format_action_plan_from(steps_list, 1)

----------------------------------------------------------------------------
(* The graph *)

\* edges with supervisor wired straight to agent_executor
edges_without_gate ==
    [supervisor |-> "agent_executor",
     human_input |-> "agent_executor",
     agent_executor |-> "replanner"]

\* edges with agent_executor wired back to itself
edges_executor_loop ==
    [supervisor |-> "human_input",
     human_input |-> "agent_executor",
     agent_executor |-> "agent_executor"]

\* edges with human_input, the plan approved, wired to END
edges_gate_to_end ==
    [supervisor |-> "human_input",
     human_input |-> END,
     agent_executor |-> "replanner"]

\* builder.add_edge(...)
edges ==
    [supervisor |-> "human_input",
     human_input |-> "agent_executor",
     agent_executor |-> "replanner"]

entry_point == "supervisor"

\* should_end attached to agent_executor as well
conditional_edges_executor == {"agent_executor", "replanner"}

\* builder.add_conditional_edges("replanner", should_end, ...)
conditional_edges == {"replanner"}

\* should_end testing only that the key is there
should_end_if_present(st) ==
    IF "response" \in DOMAIN st THEN END ELSE "agent_executor"

\* should_end sending the run back to supervisor for a new plan
should_end_to_supervisor(st) ==
    IF "response" \in DOMAIN st /\ Truthy(st["response"])
    THEN END
    ELSE "supervisor"

should_end(st) ==
    IF "response" \in DOMAIN st /\ Truthy(st["response"])
    THEN END
    ELSE "agent_executor"

\* Where control goes once `node` has returned and its update is merged
Route(node, st) ==
    IF node \in conditional_edges THEN should_end(st) ELSE edges[node]

\* The checkpoint of a State and of the node to run next
Checkpoint(st, next) == [saved |-> TRUE, values |-> st, next |-> next]

\* A MemorySaver that files the checkpoints of every run under one key
checkpoint_key_shared(config) == "1"

\* The key under which the MemorySaver files the checkpoints of a run
checkpoint_key(config) == config.configurable.thread_id

\* memory_saver.put under the run's thread_id
Put(config, checkpoint) ==
    memory_saver' = [memory_saver EXCEPT ![checkpoint_key(config)] = checkpoint]

\* memory_saver.get_tuple under the run's thread_id
Get(config) == memory_saver[checkpoint_key(config)]

Init ==
    /\ state = ApplyUpdate([messages |-> <<>>, past_steps |-> <<>>], initial_input)
    /\ pc = entry_point
    /\ interrupts = <<>>
    /\ resume = <<>>
    /\ oracle_call = NoCall
    /\ remote_call = NoCall
    /\ invocations = [g \in RemoteGraphs |-> 0]
    /\ event = [node |-> START, update |-> NoUpdate]
    /\ started = [n \in Nodes |-> 0]
    /\ completed = [n \in Nodes |-> 0]
    /\ error = "none"
    /\ memory_saver =
          [t \in ThreadIds |->
              IF t = checkpoint_key(thread)
              THEN Checkpoint(ApplyUpdate([messages |-> <<>>, past_steps |-> <<>>],
                                          initial_input),
                              entry_point)
              ELSE NoCheckpoint]
    /\ routed = 0

\* The node returns `update`: it is merged into State and the next node is chosen
Return(node, update) ==
    /\ state' = ApplyUpdate(state, update)
    /\ event' = [node |-> node, update |-> update]
    /\ started' = [started EXCEPT ![node] = @ + 1]
    /\ completed' = [completed EXCEPT ![node] = @ + 1]
    /\ pc' = Route(node, ApplyUpdate(state, update))
    /\ routed' = IF node \in conditional_edges THEN routed + 1 ELSE routed
    /\ Put(thread, Checkpoint(ApplyUpdate(state, update),
                              Route(node, ApplyUpdate(state, update))))
    /\ UNCHANGED error

\* A node that writes the exception's name to State before it raises
Raise_after_write(node, exception) ==
    /\ started' = [started EXCEPT ![node] = @ + 1]
    /\ pc' = "aborted"
    /\ error' = exception
    /\ state' = ApplyUpdate(state, [response |-> exception])
    /\ UNCHANGED <<event, completed, memory_saver, routed>>

\* The node raises `exception`: the run ends with it and State is not written
Raise(node, exception) ==
    /\ started' = [started EXCEPT ![node] = @ + 1]
    /\ pc' = "aborted"
    /\ error' = exception
    /\ UNCHANGED <<state, event, completed, memory_saver, routed>>

\* The steps of the graph taken so far: one for each node that has returned
Steps ==
    completed["supervisor"] + completed["human_input"]
    + completed["agent_executor"] + completed["replanner"]

\* The graph runs a node only while the recursion limit is not reached
CanStep == Steps < RecursionLimit

\* graph.invoke without a recursion_limit in its config: when the limit is
\* reached and the graph has not come to END, it raises GraphRecursionError
recursion_limit ==
    /\ pc \in Nodes
    /\ ~CanStep
    /\ pc' = "aborted"
    /\ error' = "GraphRecursionError"
    /\ UNCHANGED <<state, interrupts, resume, oracle_call, remote_call,
                   invocations, event, started, completed, memory_saver, routed>>

----------------------------------------------------------------------------
(* supervisor *)

not_tool(msg) == msg.type \notin {"tool", "tool_call"}

supervisor ==
    /\ pc = "supervisor"
    /\ CanStep
    /\ LET first_message == Last(state["messages"])
           filtered_messages == SelectSeq(LastN(state["messages"], 3), not_tool)
       IN  \/ \E result \in Plan :
                /\ oracle_call' = [kind |-> "Plan",
                                   prompt |-> filtered_messages,
                                   result |-> result]
                /\ Return("supervisor",
                          [action_plan |-> result.steps,
                           original_objective |-> first_message.content])
           \/ \* the model's output does not parse into Plan
              /\ oracle_call' = [kind |-> "Plan",
                                 prompt |-> filtered_messages,
                                 result |-> ParseError]
              /\ Raise("supervisor", "OutputParserException")
    /\ remote_call' = NoCall
    /\ UNCHANGED <<interrupts, resume, invocations>>

----------------------------------------------------------------------------
(* human_input *)

\* interrupt(value): raises GraphInterrupt unless a resume value is there for it
interrupt_pending == resume = <<>>

\* A payload that shows the step to run next only
interrupt_value_next_step(st) ==
    [plan_the_user_can_edit |->
        IF st["action_plan"] = <<>> THEN <<>> ELSE <<st["action_plan"][1]>>]

\* The value human_input hands to interrupt(): the action_plan of State
interrupt_value(st) == [plan_the_user_can_edit |-> st["action_plan"]]

\* human_input_update writing the plan and the objective whatever the resume value
human_input_update_always(user_input, result) ==
    IF user_input # ""
    THEN [action_plan |-> result.steps,
          original_objective |-> result.updated_objective]
    ELSE [action_plan |-> <<>>, original_objective |-> user_input]

\* The update human_input returns for a resume value and the model's result
human_input_update(user_input, result) ==
    IF user_input # ""
    THEN [action_plan |-> result.steps,
          original_objective |-> result.updated_objective]
    ELSE NoUpdate

human_input ==
    /\ pc = "human_input"
    /\ CanStep
    /\ remote_call' = NoCall
    /\ UNCHANGED invocations
    /\ IF interrupt_pending
       THEN \* interrupt() suspends the run; the payload is the plan
            /\ interrupts' = Append(interrupts, interrupt_value(state))
            /\ started' = [started EXCEPT !["human_input"] = @ + 1]
            /\ pc' = "interrupted"
            /\ oracle_call' = NoCall
            /\ UNCHANGED <<state, resume, event, completed, error,
                           memory_saver, routed>>
       ELSE LET user_input == Last(resume)
                original_objective == state["original_objective"]
                formatted_action_plan == format_action_plan(state["action_plan"])
                prompt == [original_objective |-> original_objective,
                           formatted_action_plan |-> formatted_action_plan,
                           user_input |-> user_input]
            IN  /\ UNCHANGED <<interrupts, resume>>
                /\ IF user_input # ""
                   THEN \/ \E result \in PlanWithUserInput :
                             /\ oracle_call' = [kind |-> "PlanWithUserInput",
                                                prompt |-> prompt,
                                                result |-> result]
                             /\ Return("human_input",
                                       human_input_update(user_input, result))
                        \/ /\ oracle_call' = [kind |-> "PlanWithUserInput",
                                              prompt |-> prompt,
                                              result |-> ParseError]
                           /\ Raise("human_input", "OutputParserException")
                   ELSE /\ oracle_call' = NoCall
                        /\ Return("human_input",
                                  human_input_update(user_input, NoUpdate))

\* graph.invoke(Command(resume=interrupt_info), config=thread): the run goes on
\* from the checkpoint the MemorySaver holds for the thread; with none there is
\* nothing to resume, no node runs and the result has no 'response'
resume_command ==
    /\ pc = "interrupted"
    /\ \E interrupt_info \in UserInputs :
          resume' = Append(resume, interrupt_info)
    /\ IF Get(thread).saved
       THEN /\ state' = Get(thread).values
            /\ pc' = Get(thread).next
            /\ UNCHANGED error
       ELSE /\ state' = [messages |-> <<>>, past_steps |-> <<>>]
            /\ pc' = "aborted"
            /\ error' = "KeyError"
    /\ UNCHANGED <<interrupts, oracle_call, remote_call, invocations,
                   event, started, completed, memory_saver, routed>>

----------------------------------------------------------------------------
(* agent_executor *)

\* first_task taking plan[-1]
first_task_last(plan) == plan[Len(plan)]

\* plan[0]: Python's index 0 is position 1 of a TLA+ sequence
first_task(plan) == plan[1]

RECURSIVE total_plan_from(_, _)
total_plan_from(plan, i) ==
    IF i > Len(plan) THEN ""
    ELSE ToString(i) \o ". " \o plan[i].subagent \o " will: " \o plan[i].description
         \o (IF i < Len(plan) THEN "\n" ELSE "")
         \o total_plan_from(plan, i + 1)

\* "\n".join(f"{i+1}. {step.subagent} will: {step.description}" ...)
total_plan(plan) == total_plan_from(plan, 1)

task_formatted_prompt(plan, task) ==
    "For the following plan: \n" \o total_plan(plan)
    \o "\nYou are tasked with executing the first step #1. "
    \o task.subagent \o " will: " \o task.description \o "\n"

first_task_subagent_response(task) ==
    task.subagent
    \o " executed logic to answer the following request from the planner/supervisor: "
    \o task.description

\* The chain with the invoice graph invoked for music catalog steps as well
remote_graph_for_copied(first_task_subagent) ==
    CASE first_task_subagent = "customer_information_subagent" ->
            "customer_information_remote_graph"
      [] first_task_subagent = "music_catalog_information_subagent" ->
            "invoice_information_remote_graph"
      [] first_task_subagent = "invoice_information_subagent" ->
            "invoice_information_remote_graph"
      [] OTHER -> "none"

\* The if / elif chain over first_task_subagent: the RemoteGraph it invokes,
\* "none" when no branch is taken
remote_graph_for(first_task_subagent) ==
    CASE first_task_subagent = "customer_information_subagent" ->
            "customer_information_remote_graph"
      [] first_task_subagent = "music_catalog_information_subagent" ->
            "music_catalog_information_remote_graph"
      [] first_task_subagent = "invoice_information_subagent" ->
            "invoice_information_remote_graph"
      [] OTHER -> "none"

\* graph.invoke({"messages": [HumanMessage(content=task_formatted_prompt)]})
Invoke(request) ==
    /\ remote_call' = request
    /\ invocations' = [invocations EXCEPT ![request.graph] = @ + 1]

NoInvoke ==
    /\ remote_call' = NoCall
    /\ UNCHANGED invocations

\* An agent_executor that also takes the executed step off the plan
agent_executor_update_pop(task, final_response) ==
    [past_steps |-> << <<first_task_subagent_response(task), final_response>> >>,
     action_plan |-> Tail(state["action_plan"])]

\* The update agent_executor returns
agent_executor_update(task, final_response) ==
    [past_steps |-> << <<first_task_subagent_response(task), final_response>> >>]

agent_executor ==
    /\ pc = "agent_executor"
    /\ CanStep
    /\ oracle_call' = NoCall
    /\ UNCHANGED <<interrupts, resume>>
    /\ LET plan == state["action_plan"]
       IN  IF plan = <<>>
           THEN \* plan[0] raises IndexError
                /\ NoInvoke
                /\ Raise("agent_executor", "IndexError")
           ELSE LET task == first_task(plan)
                    graph == remote_graph_for(task.subagent)
                    request == [kind |-> "invoke",
                                graph |-> graph,
                                task |-> task,
                                content |-> task_formatted_prompt(plan, task)]
                IN  IF graph = "none"
                    THEN \* final_response is unbound at the return
                         /\ NoInvoke
                         /\ Raise("agent_executor", "UnboundLocalError")
                    ELSE \/ \E response \in RemoteHistories :
                              /\ Invoke(request)
                              /\ IF response = <<>>
                                 THEN \* response[-1] raises IndexError
                                      Raise("agent_executor", "IndexError")
                                 ELSE Return("agent_executor",
                                             agent_executor_update(
                                                 task, Last(response).content))
                         \/ \* the remote graph's invoke raises
                            /\ Invoke(request)
                            /\ Raise("agent_executor", "RemoteException")

----------------------------------------------------------------------------
(* replanner *)

\* A replanner that drops the executed step instead of taking the model's plan
replanner_update_rest(result) ==
    IF IsResponse(result.action)
    THEN [response |-> result.action.response]
    ELSE [action_plan |-> Tail(state["action_plan"])]

\* The update replanner returns for the model's result
replanner_update(result) ==
    IF IsResponse(result.action)
    THEN [response |-> result.action.response]
    ELSE [action_plan |-> result.action.steps]

replanner ==
    /\ pc = "replanner"
    /\ CanStep
    /\ remote_call' = NoCall
    /\ UNCHANGED <<interrupts, resume, invocations>>
    /\ LET original_objective == state["original_objective"]
           previous_action_plan == state["action_plan"]
           previous_steps == state["past_steps"]
           prompt == [original_objective |-> original_objective,
                      formatted_action_plan |-> format_action_plan(previous_action_plan),
                      formatted_steps |-> format_steps(previous_steps)]
       IN  \/ \E result \in ReplannerResponse :
                /\ oracle_call' = [kind |-> "ReplannerResponse",
                                   prompt |-> prompt,
                                   result |-> result]
                /\ Return("replanner", replanner_update(result))
           \/ /\ oracle_call' = [kind |-> "ReplannerResponse",
                                 prompt |-> prompt,
                                 result |-> ParseError]
              /\ Raise("replanner", "OutputParserException")

----------------------------------------------------------------------------
(* Specifications *)

Next ==
    \/ supervisor
    \/ human_input
    \/ resume_command
    \/ agent_executor
    \/ replanner
    \/ recursion_limit

Spec == Init /\ [][Next]_vars

\* The graph run advances whenever a node is ready; the human's resume is not forced
FairSpec ==
    /\ Spec
    /\ WF_vars(supervisor)
    /\ WF_vars(human_input)
    /\ WF_vars(agent_executor)
    /\ WF_vars(replanner)

----------------------------------------------------------------------------
(* The process that holds the MemorySaver *)

\* memory_saver = MemorySaver() keeps its checkpoints in the memory of the
\* process: when the process exits while the run is interrupted and a new
\* process loads the module, the MemorySaver is a new, empty one. `state` keeps
\* the State of the suspended session until a run is resumed.
process_restart ==
    /\ pc = "interrupted"
    /\ Get(thread).saved
    /\ memory_saver' = [t \in ThreadIds |-> NoCheckpoint]
    /\ UNCHANGED <<state, pc, interrupts, resume, oracle_call, remote_call,
                   invocations, event, started, completed, error, routed>>

RestartNext ==
    \/ Next
    \/ process_restart

RestartSpec == Init /\ [][RestartNext]_vars

----------------------------------------------------------------------------
(* A second run of the graph, under another thread_id *)

\* The configs of the runs other than the one under `thread`
OtherThreads ==
    {[configurable |-> [thread_id |-> t]] : t \in ThreadIds \ {checkpoint_key(thread)}}

\* A plan supervisor makes in such a run
OtherPlans == {<<step>> : step \in {s \in Step : s.subagent = "invoice_information_subagent"}}

\* The checkpoints such a run puts before it is resumed: of its input, and of
\* the State supervisor left, with human_input to run next
OtherCheckpoints ==
    {Checkpoint(ApplyUpdate([messages |-> <<>>, past_steps |-> <<>>], initial_input),
                entry_point)}
    \cup {Checkpoint([messages |-> initial_input.messages,
                      past_steps |-> <<>>,
                      action_plan |-> plan,
                      original_objective |-> Last(initial_input.messages).content],
                     edges[entry_point]) : plan \in OtherPlans}

\* A step of a run of the same graph under another thread_id, interleaved with
\* the run under `thread`: the node functions write to no module-level object,
\* so what the two runs share is the MemorySaver, to which the step puts its
\* checkpoint
other_session_step ==
    /\ \E config \in OtherThreads, checkpoint \in OtherCheckpoints :
          /\ memory_saver[checkpoint_key(config)] # checkpoint
          /\ Put(config, checkpoint)
    /\ UNCHANGED <<state, pc, interrupts, resume, oracle_call, remote_call,
                   invocations, event, started, completed, error, routed>>

SessionsNext ==
    \/ Next
    \/ other_session_step

SessionsSpec == Init /\ [][SessionsNext]_vars

----------------------------------------------------------------------------
(* agent_executor on any State *)

\* A subagent name outside the Literal of Step
UnknownSubagents == {"billing_subagent"}

\* State declares action_plan as a plain list and is not validated: the steps
\* agent_executor may be handed, whatever made them
AnyStep == [description : Descriptions, subagent : Subagents \cup UnknownSubagents]

\* The run at the entry of agent_executor, human_input having returned with
\* the plan unchanged, for every action_plan over AnyStep
ExecutorInit ==
    /\ \E plan \in SeqsUpTo(AnyStep, MaxPlanLen) :
          /\ state = [messages |-> initial_input.messages,
                      past_steps |-> <<>>,
                      action_plan |-> plan,
                      original_objective |-> Last(initial_input.messages).content]
          /\ interrupts = <<[plan_the_user_can_edit |-> plan]>>
    /\ pc = "agent_executor"
    /\ resume = <<"">>
    /\ oracle_call = NoCall
    /\ remote_call = NoCall
    /\ invocations = [g \in RemoteGraphs |-> 0]
    /\ event = [node |-> "human_input", update |-> NoUpdate]
    /\ started = [n \in Nodes |->
                     CASE n = "supervisor" -> 1 [] n = "human_input" -> 2 [] OTHER -> 0]
    /\ completed = [n \in Nodes |->
                       IF n \in {"supervisor", "human_input"} THEN 1 ELSE 0]
    /\ error = "none"
    /\ memory_saver =
          [t \in ThreadIds |->
              IF t = checkpoint_key(thread)
              THEN Checkpoint(state, "agent_executor")
              ELSE NoCheckpoint]
    /\ routed = 0

ExecutorNext ==
    \/ agent_executor
    \/ replanner
    \/ recursion_limit

ExecutorSpec == ExecutorInit /\ [][ExecutorNext]_vars

----------------------------------------------------------------------------
(* Properties *)

Ran(node) == started'[node] = started[node] + 1

Returned(node) == completed'[node] = completed[node] + 1

Sent == invocations' # invocations

Present(st, key) == key \in DOMAIN st

\* response is absent or the empty string
Unset(st) == ~Present(st, "response") \/ st["response"] = ""

\* C1: agent_executor is not entered, and no remote graph is invoked, before
\* human_input has interrupted the run with the action_plan of State as its
\* payload and one resume value, empty or not, has been delivered.
C1_GateBeforeExecution ==
    /\ (started["agent_executor"] > 0 \/ \E g \in RemoteGraphs : invocations[g] > 0)
          => /\ Len(interrupts) = 1
             /\ Len(resume) = 1
             /\ resume[1] \in UserInputs
    /\ pc = "interrupted"
          => /\ Len(interrupts) = 1
             /\ interrupts[1].plan_the_user_can_edit = state["action_plan"]

C1_Witness ==
    /\ started["agent_executor"] > 0
    /\ remote_call.kind = "invoke"
    /\ resume = <<"also check my email on file">>

\* C2: the length of past_steps is the number of agent_executor calls that have
\* returned; each such call appends exactly one record, the one of the task it
\* sent, after the records already there; no step removes, rewrites or reorders
\* a record.
C2_PastStepsAppendOnly ==
    /\ [](Len(state["past_steps"]) = completed["agent_executor"])
    /\ [][/\ SubSeq(state'["past_steps"], 1, Len(state["past_steps"]))
                = state["past_steps"]
          /\ Returned("agent_executor")
                => /\ Len(state'["past_steps"]) = Len(state["past_steps"]) + 1
                   /\ Last(state'["past_steps"])[1]
                         = first_task_subagent_response(remote_call'.task)
          /\ ~Returned("agent_executor")
                => state'["past_steps"] = state["past_steps"]]_vars

C2_Witness ==
    /\ completed["agent_executor"] = 2
    /\ Len(state["past_steps"]) = 2
    /\ state["past_steps"][1] # state["past_steps"][2]

\* C3: a call of agent_executor sends at most one request, to one remote graph,
\* and the task of that request is the step at position 0 of the action_plan in
\* State at the call; a call that returns has sent exactly one.
C3_DispatchesFirstStep ==
    [][Ran("agent_executor")
          => /\ Sent => /\ remote_call'.kind = "invoke"
                        /\ remote_call'.task = state["action_plan"][1]
                        /\ \E g \in RemoteGraphs :
                              invocations' = [invocations EXCEPT ![g] = @ + 1]
             /\ Returned("agent_executor") => Sent
             /\ ~Sent => remote_call'.kind = "none"]_vars

C3_Witness ==
    /\ pc = "replanner"
    /\ Len(state["action_plan"]) = 2
    /\ state["action_plan"][1] # state["action_plan"][2]
    /\ remote_call.kind = "invoke"
    /\ remote_call.task = state["action_plan"][1]

\* What the replanner's update does to State
SetsResponse ==
    /\ Present(event'.update, "response")
    /\ ~Unset(state')
    /\ ~Present(event'.update, "action_plan")

ReplacesPlan ==
    /\ Present(event'.update, "action_plan")
    /\ state'["action_plan"] = event'.update["action_plan"]
    /\ ~Present(event'.update, "response")
    /\ Unset(state')

\* C4: a call of replanner that returns either sets response to a non-empty
\* value and does not write action_plan, or replaces action_plan and leaves
\* response unset: one of the two, never both, never neither.
C4_ExactlyOneOutput ==
    [][Returned("replanner")
          => /\ SetsResponse \/ ReplacesPlan
             /\ ~(SetsResponse /\ ReplacesPlan)]_vars

\* C5: the routing after replanner goes to END exactly when response is present
\* in State and is a non-empty string, and to agent_executor otherwise.
C5_ShouldEnd ==
    [][Returned("replanner")
          => /\ pc' = END <=> (Present(state', "response") /\ state'["response"] # "")
             /\ pc' # END => pc' = "agent_executor"]_vars

C5_Witness ==
    /\ event.node = "replanner"
    /\ pc = "agent_executor"
    /\ Present(state, "response")
    /\ state["response"] = ""

\* A run of human_input that gets the resume value from interrupt()
Resumed(user_input) ==
    /\ pc = "human_input"
    /\ resume # <<>>
    /\ Last(resume) = user_input
    /\ Ran("human_input")

\* C6: human_input resumed with the empty string changes no key of State and
\* hands control to agent_executor.
C6_EmptyFeedbackNoChange ==
    [][Resumed("") => /\ state' = state
                      /\ pc' = "agent_executor"
                      /\ Returned("human_input")]_vars

C6_Witness ==
    /\ event.node = "human_input"
    /\ resume = <<"">>
    /\ pc = "agent_executor"
    /\ Len(state["action_plan"]) = 2

\* The plan and the objective are the ones the model returned, and nothing else
ReplacedWholesale ==
    /\ state'["action_plan"] = oracle_call'.result.steps
    /\ state'["original_objective"] = oracle_call'.result.updated_objective
    /\ \A k \in DOMAIN state \ {"action_plan", "original_objective"} :
          state'[k] = state[k]

\* C7 as stated: human_input resumed with non-empty feedback replaces
\* action_plan and original_objective by the model's steps and updated
\* objective, and both differ from their values before the resume.
C7_ReplacedAndChanged ==
    [][\A user_input \in UserInputs \ {""} :
          Resumed(user_input) /\ Returned("human_input")
             => /\ ReplacedWholesale
                /\ state'["action_plan"] # state["action_plan"]
                /\ state'["original_objective"] # state["original_objective"]]_vars

\* C7, amended: human_input resumed with non-empty feedback replaces
\* action_plan and original_objective by exactly the model's steps and updated
\* objective, whether or not these differ from the values before the resume.
C7_ReplacedWholesale ==
    [][\A user_input \in UserInputs \ {""} :
          Resumed(user_input) /\ Returned("human_input")
             => ReplacedWholesale]_vars

C7_Witness ==
    /\ event.node = "human_input"
    /\ resume = <<"also check my email on file">>
    /\ Len(interrupts[1].plan_the_user_can_edit) = 2
    /\ Len(state["action_plan"]) = 1
    /\ state["action_plan"][1] \notin
          {interrupts[1].plan_the_user_can_edit[i] : i \in 1..2}
    /\ state["original_objective"] # initial_input.messages[1].content

\* C8: once replanner gets a Response from the model and writes response, the
\* run goes to END, and from END no node runs again.
C8_ResponseTerminates ==
    [][/\ (Returned("replanner") /\ IsResponse(oracle_call'.result.action))
             => pc' = END
       /\ pc = END => \A n \in Nodes : ~Ran(n)]_vars

\* C9: whenever agent_executor is the next node and response is unset,
\* action_plan is not empty.
C9_PlanNonEmpty ==
    (pc = "agent_executor" /\ Unset(state)) => state["action_plan"] # <<>>

\* The exceptions a node raises: the model's output does not parse, the remote
\* graph's invoke raises or its result cannot be used
NodeErrors ==
    {"OutputParserException", "RemoteException", "IndexError", "UnboundLocalError"}

\* C10: a run that was resumed and in which no node raised comes to END: when
\* it has stopped, it has stopped at END.
C10_Terminates ==
    (resume # <<>> /\ pc \notin Nodes) => (pc = END \/ error \in NodeErrors)

\* A node raised in this step
Failed == error = "none" /\ error' \in NodeErrors

\* C11: when a node raises, the run is aborted, State is what it was when the
\* node started, the checkpoint of the thread still holds that State, no
\* past_steps record is appended and no node is counted as having returned.
C11_FailFast ==
    [][Failed =>
          /\ pc' = "aborted"
          /\ state' = state
          /\ Len(state'["past_steps"]) = Len(state["past_steps"])
          /\ memory_saver' = memory_saver
          /\ Get(thread).saved /\ Get(thread).values = state
          /\ completed' = completed]_vars

\* agent_executor raised on an empty reply after an earlier step was recorded
C11_Witness ==
    /\ error = "IndexError"
    /\ remote_call # NoCall
    /\ Len(state["past_steps"]) = 1
    /\ started["agent_executor"] = 2

\* C12: a run interrupted at human_input is resumed from the thread_id, the
\* checkpoint and the resume value alone, also by a process started after the
\* one that interrupted it has exited: the resumed run is at human_input with
\* the State of the suspension.
C12_ResumeAfterRestart ==
    [][(pc = "interrupted" /\ resume' # resume) =>
          /\ pc' = "human_input"
          /\ state' = state
          /\ error' = "none"]_vars

\* The variables of the run under `thread`, the MemorySaver apart
session == <<state, pc, interrupts, resume, oracle_call, remote_call,
             invocations, event, started, completed, error, routed>>

\* The checkpoints the MemorySaver holds for the other thread_ids
OthersCheckpoints ==
    [t \in ThreadIds \ {checkpoint_key(thread)} |-> memory_saver[t]]

C14_PrologueOnce ==
    [][/\ completed'["supervisor"] <= 1
       /\ started'["supervisor"] <= 1
       /\ completed'["human_input"] <= 1
       /\ Len(interrupts') <= 1
       /\ Ran("human_input") => completed["supervisor"] = 1
       /\ Ran("agent_executor") =>
              (completed["supervisor"] = 1 /\ completed["human_input"] = 1)
       /\ started["agent_executor"] > 0 =>
              /\ ~Ran("supervisor") /\ ~Ran("human_input")
              /\ pc' \notin {"supervisor", "human_input", "interrupted"}
       /\ (pc = "agent_executor" /\ pc' \in Nodes \ {pc}) => pc' = "replanner"
       /\ (pc = "replanner" /\ pc' \in Nodes \ {pc}) => pc' = "agent_executor"
       /\ (pc' = pc /\ pc \in Nodes) => UNCHANGED started]_vars

\* The loop went round twice after one supervisor and one human_input
C14_Witness ==
    /\ completed["agent_executor"] = 2
    /\ completed["replanner"] = 2
    /\ completed["supervisor"] = 1
    /\ completed["human_input"] = 1
    /\ Len(interrupts) = 1

\* C15: agent_executor and replanner alternate, agent_executor first: the
\* number of times agent_executor has returned exceeds the number of times
\* replanner has returned by 0 or 1, agent_executor is entered only when the
\* two are equal and replanner only when agent_executor is one ahead (right
\* after it), the node after agent_executor is replanner, and the node after
\* replanner, if any, is agent_executor.
C15_Alternation ==
    [][/\ completed'["agent_executor"] - completed'["replanner"] \in {0, 1}
       /\ Ran("agent_executor") =>
              completed["agent_executor"] = completed["replanner"]
       /\ Ran("replanner") =>
              /\ completed["agent_executor"] = completed["replanner"] + 1
              /\ event.node = "agent_executor"
       /\ Returned("agent_executor") => pc' = "replanner"
       /\ (Returned("replanner") /\ pc' \in Nodes) => pc' = "agent_executor"]_vars

\* agent_executor returned for the second time, replanner once
C15_Witness ==
    /\ completed["agent_executor"] = 2
    /\ completed["replanner"] = 1
    /\ pc = "replanner"

\* C16: the run comes to END only in the step in which replanner returns, and
\* then because should_end, applied to the State with replanner's update
\* merged, says so. should_end is called once each time replanner returns and
\* at no other step.
C16_EndOnlyAfterReplanner ==
    [][/\ (pc' = END /\ pc # END) =>
              /\ pc = "replanner"
              /\ Returned("replanner")
              /\ should_end(state') = END
              /\ routed' = routed + 1
       /\ Returned("replanner") => (routed' = routed + 1 /\ pc' = should_end(state'))
       /\ ~Returned("replanner") => routed' = routed
       /\ routed' = completed'["replanner"]]_vars

\* The run came to END at the second call of should_end
C16_Witness ==
    /\ pc = END
    /\ routed = 2
    /\ completed["replanner"] = 2
    /\ event.node = "replanner"

\* The remote graph registered for each subagent name
Registered ==
    [customer_information_subagent |-> "customer_information_remote_graph",
     music_catalog_information_subagent |-> "music_catalog_information_remote_graph",
     invoice_information_subagent |-> "invoice_information_remote_graph"]

\* C17: when agent_executor is entered with a first step whose subagent is one
\* of the three names, it invokes the remote graph registered for that name
\* once and no other remote graph; and when it returns, the record it appends
\* carries the content of the last message of that invocation's reply.
C17_OneRemoteGraphOnce ==
    [][(/\ Ran("agent_executor")
        /\ state["action_plan"] # <<>>
        /\ state["action_plan"][1].subagent \in DOMAIN Registered) =>
          LET tag == state["action_plan"][1].subagent
          IN  /\ invocations' =
                    [invocations EXCEPT ![Registered[tag]] = @ + 1]
              /\ remote_call'.kind = "invoke"
              /\ remote_call'.graph = Registered[tag]
              /\ Returned("agent_executor") =>
                    /\ Len(state'["past_steps"]) = Len(state["past_steps"]) + 1
                    /\ Last(state'["past_steps"])[2] \in RemoteContents]_vars

\* Each of the two steps of the run went to its own remote graph
C17_Witness ==
    /\ completed["agent_executor"] = 2
    /\ invocations["music_catalog_information_remote_graph"] = 1
    /\ invocations["invoice_information_remote_graph"] = 1
    /\ invocations["customer_information_remote_graph"] = 0

\* agent_executor is entered with a first step whose subagent is none of the
\* three names
UnknownTag ==
    /\ Ran("agent_executor")
    /\ state["action_plan"] # <<>>
    /\ state["action_plan"][1].subagent \notin Subagents

\* C18: when the subagent of the first step is none of the three names,
\* agent_executor detects it and raises UnknownCapabilityError: no remote
\* graph is invoked, no record is appended and the run is aborted.
C18_UnknownCapabilityReported ==
    [][UnknownTag =>
          /\ error' = "UnknownCapabilityError"
          /\ pc' = "aborted"
          /\ ~Sent
          /\ state' = state]_vars

\* replanner returns with a Plan from the model
Continues ==
    /\ Returned("replanner")
    /\ ~IsResponse(oracle_call'.result.action)

\* C19: when replanner returns with a Plan from the model, action_plan becomes
\* exactly the steps of that Plan, whatever the plan before was, response
\* stays as it was and unset, and agent_executor runs next; that run of
\* agent_executor works on the new plan: it sends its first step, and nothing
\* when the new plan has no step.
C19_ContinueWithNewPlan ==
    [][/\ Continues =>
              /\ state'["action_plan"] = oracle_call'.result.action.steps
              /\ Present(state', "response") <=> Present(state, "response")
              /\ Unset(state')
              /\ pc' = "agent_executor"
       /\ (/\ Ran("agent_executor")
           /\ event.node = "replanner"
           /\ Present(event.update, "action_plan")) =>
              LET new_plan == event.update["action_plan"]
              IN  /\ state["action_plan"] = new_plan
                  /\ new_plan # <<>> =>
                        (Sent /\ remote_call'.task = new_plan[1])
                  /\ new_plan = <<>> => ~Sent]_vars

\* agent_executor sent the first step of replanner's plan, a step that was not
\* in the plan before
C19_Witness ==
    /\ event.node = "agent_executor"
    /\ completed["agent_executor"] = 2
    /\ resume = <<"">>
    /\ remote_call.kind = "invoke"
    /\ remote_call.task = state["action_plan"][1]
    /\ \A i \in 1..Len(interrupts[1].plan_the_user_can_edit) :
          interrupts[1].plan_the_user_can_edit[i] # remote_call.task

\* A key of State with its value, or the mark that the key is absent
Field(st, key) == IF Present(st, key) THEN <<TRUE, st[key]>> ELSE <<FALSE>>

Changed(key) == Field(state', key) # Field(state, key)

\* human_input returns having been resumed with feedback
FeedbackApplied == Returned("human_input") /\ Last(resume) # ""

\* C20: each key of State is written by its own nodes only. original_objective
\* changes only when supervisor returns or human_input returns after non-empty
\* feedback; action_plan only then or when replanner returns with a Plan, and
\* its new value is the whole value of the update; past_steps only when
\* agent_executor returns; response only when replanner returns; and a run of
\* agent_executor leaves action_plan as it was.
C20_WriteOwnership ==
    [][/\ Changed("original_objective") =>
              (Returned("supervisor") \/ FeedbackApplied)
       /\ Changed("action_plan") =>
              /\ Returned("supervisor") \/ FeedbackApplied \/ Continues
              /\ Present(event'.update, "action_plan")
              /\ state'["action_plan"] = event'.update["action_plan"]
       /\ Changed("past_steps") => Returned("agent_executor")
       /\ Changed("response") => Returned("replanner")
       /\ Ran("agent_executor") =>
              Field(state', "action_plan") = Field(state, "action_plan")]_vars

\* A run in which all four keys were written: feedback was applied, the plan
\* and the objective were replaced, two steps were recorded and the response
\* was set
C20_Witness ==
    /\ pc = END
    /\ resume = <<"also check my email on file">>
    /\ Len(state["past_steps"]) = 2
    /\ state["action_plan"] # interrupts[1].plan_the_user_can_edit
    /\ state["original_objective"] # initial_input.messages[1].content
    /\ ~Unset(state)

\* C21: the run is at END only after a step was executed: at END past_steps
\* has a record, agent_executor and replanner were entered and have returned
\* the same number of times, once at least, and the node that returned last
\* is replanner, never supervisor or human_input, whatever the plan.
C21_EndAfterExecution ==
    pc = END =>
        /\ Len(state["past_steps"]) >= 1
        /\ completed["agent_executor"] >= 1
        /\ completed["replanner"] = completed["agent_executor"]
        /\ started["replanner"] = started["agent_executor"]
        /\ event.node = "replanner"

\* The run came to END after its first step
C21_Witness ==
    /\ pc = END
    /\ Len(state["past_steps"]) = 1
    /\ completed["agent_executor"] = 1
    /\ completed["replanner"] = 1

\* The plan in the payload of the interrupt
Exposed == interrupts[1].plan_the_user_can_edit

\* C22: the plan shown at the interrupt is the plan the run goes on with. The
\* payload of the interrupt is the action_plan of the State in the thread's
\* checkpoint; after a resume with the empty string the first run of
\* agent_executor finds that plan in State and sends its first step; after a
\* resume with feedback the prompt to the model carries that plan, formatted,
\* the original_objective of the checkpointed State, and the feedback.
C22_ExposedPlanActedOn ==
    [][/\ (pc # "interrupted" /\ pc' = "interrupted") =>
              /\ Last(interrupts').plan_the_user_can_edit = state'["action_plan"]
              /\ Get(thread)'.values = state'
       /\ (/\ Ran("agent_executor")
           /\ started["agent_executor"] = 0
           /\ Last(resume) = "") =>
              /\ state["action_plan"] = Exposed
              /\ Exposed # <<>> => (Sent /\ remote_call'.task = Exposed[1])
              /\ Exposed = <<>> => ~Sent
       /\ \A user_input \in UserInputs \ {""} :
              Resumed(user_input) =>
                 /\ oracle_call'.kind = "PlanWithUserInput"
                 /\ oracle_call'.prompt.formatted_action_plan =
                        format_action_plan(Exposed)
                 /\ oracle_call'.prompt.original_objective =
                        Get(thread).values["original_objective"]
                 /\ oracle_call'.prompt.user_input = user_input
                 /\ Get(thread).values["action_plan"] = Exposed]_vars

\* Resumed with the empty string, agent_executor sent the first of the two
\* different steps that were shown at the interrupt
C22_Witness ==
    /\ resume = <<"">>
    /\ completed["agent_executor"] = 1
    /\ pc = "replanner"
    /\ Len(Exposed) = 2
    /\ Exposed[1] # Exposed[2]
    /\ remote_call.kind = "invoke"
    /\ remote_call.task = Exposed[1]

====
